---------------------------- MODULE Spec2Model ----------------------------
(***************************************************************************)
(* Model of generate_addresses.py (Enjin Snap wallet exporter).            *)
(*                                                                         *)
(* Text is a sequence of tokens (one-character strings; a mnemonic word or *)
(* a literal of the program is one token).  Bytes are sequences of         *)
(* integers in 0..255.  The cryptographic primitives of the libraries the  *)
(* program calls (BIP-39, BIP-32/SLIP-10, ed25519, sr25519, scrypt,        *)
(* xsalsa20-poly1305, keccak) are deterministic stand-ins over bytes with  *)
(* the arities, lengths, error cases and parameter handling of the         *)
(* originals; everything the program itself does to bytes and text         *)
(* (hex, slicing, encoding, packing, concatenation, base64) is computed.   *)
(***************************************************************************)
EXTENDS Integers, Sequences, FiniteSets, TLC

VARIABLES
    \* ---- process-wide state shared by every call ----
    hdwallet_enabled,   \* eth_account.Account._use_unaudited_hdwallet_features
    rng,                \* state of the operating system's CSPRNG (os.urandom)
    has_hashlib_scrypt, \* whether this Python build has hashlib.scrypt
    \* ---- library-level harness: the calls made so far ----
    calls,
    \* ---- one run of the program (main) ----
    pc, env_file, os_environ, mnemonic, attempts, pw_entry, pw_confirm,
    export_password, choice, snap, console, files, enc_calls, exit_status,
    answer              \* the last event read from standard input

libvars == <<calls>>
progvars == <<pc, env_file, os_environ, mnemonic, attempts, pw_entry, pw_confirm,
              export_password, choice, snap, console, files, enc_calls, exit_status,
              answer>>
vars == <<hdwallet_enabled, rng, has_hashlib_scrypt, calls, pc, env_file,
          os_environ, mnemonic, attempts, pw_entry, pw_confirm, export_password,
          choice, snap, console, files, enc_calls, exit_status, answer>>

(***************************************************************************)
(* Bounds of the model.                                                    *)
(***************************************************************************)
MaxCalls == 3

\* Bound of the exploration: passes of load_mnemonic's loop that find no
\* mnemonic.
MaxRechecks == 2

(***************************************************************************)
(* Text and bytes.                                                         *)
(***************************************************************************)
Min(a, b) == IF a < b THEN a ELSE b

\* A function over 1..n as an explicit tuple.
Bytes(f) == f \o <<>>

\* The printable ASCII characters, code 32 first (three of them by name).
AsciiTable ==
    <<" ", "!", "DQUOTE", "#", "$", "%", "&", "'", "(", ")", "*", "+", ",", "-", ".", "/",
      "0", "1", "2", "3", "4", "5", "6", "7", "8", "9", ":", ";", "<", "=", ">", "?",
      "@", "A", "B", "C", "D", "E", "F", "G", "H", "I", "J", "K", "L", "M", "N", "O",
      "P", "Q", "R", "S", "T", "U", "V", "W", "X", "Y", "Z", "[", "BACKSLASH", "]", "^", "_",
      "BACKTICK", "a", "b", "c", "d", "e", "f", "g", "h", "i", "j", "k", "l", "m", "n", "o",
      "p", "q", "r", "s", "t", "u", "v", "w", "x", "y", "z", "{", "|", "}", "~">>

Ord(c) == 31 + (CHOOSE i \in 1..Len(AsciiTable) : AsciiTable[i] = c)

Chr(n) == AsciiTable[n - 31]

\* str.encode('utf-8') of ASCII text: one byte per character.
Utf8Encode(s) == Bytes([i \in 1..Len(s) |-> Ord(s[i])])

\* str.lower() on one character.
LowerChar(c) ==
    IF c \in {AsciiTable[i] : i \in 34..59} THEN Chr(Ord(c) + 32) ELSE c

Lower(s) == Bytes([i \in 1..Len(s) |-> LowerChar(s[i])])

IsSpace(c) == c \in {" ", "\t", "\n"}

RECURSIVE LStrip(_)
LStrip(s) ==
    IF s # <<>> /\ IsSpace(Head(s)) THEN LStrip(Tail(s)) ELSE s

RECURSIVE RStrip(_)
RStrip(s) ==
    IF s # <<>> /\ IsSpace(s[Len(s)]) THEN RStrip(SubSeq(s, 1, Len(s) - 1)) ELSE s

\* str.strip()
Strip(s) == RStrip(LStrip(s))

\* s[:n]
Take(s, n) == SubSeq(s, 1, Min(n, Len(s)))

\* s[n:]
Drop(s, n) == SubSeq(s, n + 1, Len(s))

\* Whether text t occurs in text s.
Contains(s, t) ==
    \E i \in 1..(Len(s) - Len(t) + 1) : SubSeq(s, i, i + Len(t) - 1) = t

HexDigits == <<"0", "1", "2", "3", "4", "5", "6", "7",
               "8", "9", "a", "b", "c", "d", "e", "f">>

\* bytes.hex() / ToHex(): two lowercase hex digits per byte.
ToHex(b) ==
    Bytes([i \in 1..(2 * Len(b)) |->
        IF i % 2 = 1 THEN HexDigits[(b[(i + 1) \div 2] \div 16) + 1]
                     ELSE HexDigits[(b[i \div 2] % 16) + 1]])

\* struct.pack('<I', n): 4 bytes, little-endian, unsigned.
StructPackLE32(n) ==
    <<n % 256, (n \div 256) % 256, (n \div 65536) % 256, (n \div 16777216) % 256>>

Base64Alphabet ==
    <<"A", "B", "C", "D", "E", "F", "G", "H", "I", "J", "K", "L", "M", "N", "O", "P",
      "Q", "R", "S", "T", "U", "V", "W", "X", "Y", "Z", "a", "b", "c", "d", "e", "f",
      "g", "h", "i", "j", "k", "l", "m", "n", "o", "p", "q", "r", "s", "t", "u", "v",
      "w", "x", "y", "z", "0", "1", "2", "3", "4", "5", "6", "7", "8", "9", "+", "/">>

\* base64.b64encode(b).decode('ascii'): 4 characters per 3 bytes, '=' padded.
Base64Encode(b) ==
    LET n == Len(b)
        At(k) == IF k <= n THEN b[k] ELSE 0
        Sextet(g, j) ==
            LET w == At(3 * g + 1) * 65536 + At(3 * g + 2) * 256 + At(3 * g + 3)
            IN  CASE j = 1 -> w \div 262144
                  [] j = 2 -> (w \div 4096) % 64
                  [] j = 3 -> (w \div 64) % 64
                  [] OTHER -> w % 64
    IN  [i \in 1..(4 * ((n + 2) \div 3)) |->
            LET g == (i - 1) \div 4
                j == ((i - 1) % 4) + 1
            IN  IF (j = 3 /\ 3 * g + 2 > n) \/ (j = 4 /\ 3 * g + 3 > n)
                THEN "="
                ELSE Base64Alphabet[Sextet(g, j) + 1]]

(***************************************************************************)
(* Results of calls that may raise: Ok(v), or Raise(type, message).        *)
(***************************************************************************)
Ok(v) == [ok |-> TRUE, value |-> v]

Raise(type, message) == [ok |-> FALSE, type |-> type, message |-> message]

(***************************************************************************)
(* BIP-39 mnemonics (libraries: bip_utils, eth_account, substrateinterface)*)
(* scaled to three words of a four-word list: valid iff the count is       *)
(* right, every word is in the list and the checksum is right.             *)
(***************************************************************************)
Wordlist == <<"abandon", "ability", "able", "about">>

Words(m) == SelectSeq(m, LAMBDA t : ~IsSpace(t))

WordIndex(w) == (CHOOSE i \in 1..Len(Wordlist) : Wordlist[i] = w) - 1

RECURSIVE SumTo(_, _)
SumTo(s, n) == IF n = 0 THEN 0 ELSE s[n] + SumTo(s, n - 1)

SumSeq(s) == SumTo(s, Len(s))

Bip39Valid(m) ==
    LET w == Words(m)
    IN  /\ Len(w) = 3
        /\ \A i \in 1..Len(w) : w[i] \in {Wordlist[k] : k \in 1..Len(Wordlist)}
        /\ SumSeq([i \in 1..Len(w) |-> WordIndex(w[i])]) % 4 = 0

\* The entropy the words of a valid mnemonic encode.
MnemonicEntropy(m) ==
    LET w == Words(m)
    IN  WordIndex(w[1]) * 16 + WordIndex(w[2]) * 4 + WordIndex(w[3])

\* The mnemonics the clients of the derivations supply: two valid phrases
\* and one whose checksum is wrong.
MnemonicA == <<"abandon", " ", "ability", " ", "about">>
MnemonicB == <<"able", " ", "able", " ", "abandon">>
MnemonicBad == <<"abandon", " ", "abandon", " ", "about">>
Mnemonics == {MnemonicA, MnemonicB, MnemonicBad}

\* Bip39SeedGenerator(mnemonic).Generate(): the 64-byte seed, or the
\* validator's error.
Bip39SeedGenerate(m) ==
    IF ~Bip39Valid(m)
    THEN Raise("Bip39ChecksumError", <<"Invalid checksum">>)
    ELSE Ok([i \in 1..64 |-> (MnemonicEntropy(m) * 37 + i * 11 + 3) % 256])

\* A derivation path: a sequence of <<index, hardened>> components.
PathSnap == <<<<44, TRUE>>, <<1155, TRUE>>>>
PathEthereum == <<<<44, TRUE>>, <<60, TRUE>>, <<0, TRUE>>, <<0, FALSE>>, <<0, FALSE>>>>

RECURSIVE PathCode(_)
PathCode(path) ==
    IF path = <<>> THEN 1
    ELSE (PathCode(SubSeq(path, 1, Len(path) - 1)) * 31
          + path[Len(path)][1] + (IF path[Len(path)][2] THEN 128 ELSE 0)) % 65536

\* BIP-32 / SLIP-10 secp256k1 derivation of a 32-byte private key.
Bip32Derive(seed, path) ==
    Bytes([i \in 1..32 |-> (seed[i] * 3 + seed[i + 32] + PathCode(path) * 7 + i * i) % 256])

\* Bip32Slip10Secp256k1.FromSeedAndPath(seed, "m/44'/1155'").PrivateKey().Raw()
Slip10PrivateKey(m) == Bip32Derive(Bip39SeedGenerate(m).value, PathSnap)

SS58_FORMAT == 1110

Base58Alphabet ==
    <<"1", "2", "3", "4", "5", "6", "7", "8", "9", "A", "B", "C", "D", "E", "F", "G",
      "H", "J", "K", "L", "M", "N", "P", "Q", "R", "S", "T", "U", "V", "W", "X", "Y",
      "Z", "a", "b", "c", "d", "e", "f", "g", "h", "i", "j", "k", "m", "n", "o", "p",
      "q", "r", "s", "t", "u", "v", "w", "x", "y", "z">>

\* substrateinterface's ss58_encode: format prefix, public key and a 2-byte
\* checksum, written in the base-58 alphabet.
Ss58Encode(public_key, format) ==
    LET body == <<format \div 256, format % 256>> \o public_key
        raw == body \o <<SumSeq(body) % 256, (SumSeq(body) \div 256) % 256>>
    IN  [i \in 1..Len(raw) |-> Base58Alphabet[(raw[i] % 58) + 1]]

Ed25519PublicKey(seed) ==
    Bytes([i \in 1..32 |-> (seed[i] * 5 + seed[33 - i] + 101) % 256])

\* Keypair.create_from_seed(seed, ss58_format, crypto_type=ED25519)
KeypairCreateFromSeed(seed, format) ==
    IF Len(seed) # 32
    THEN Raise("ValueError", <<"Invalid length for seed">>)
    ELSE LET pk == Ed25519PublicKey(seed)
         IN  Ok([crypto_type |-> "ED25519", seed_hex |-> seed, public_key |-> pk,
                 ss58_format |-> format, ss58_address |-> Ss58Encode(pk, format)])

\* Keypair.create_from_uri(mnemonic, ss58_format, crypto_type=SR25519) with
\* no derivation path in the URI.
KeypairCreateFromUri(m, format) ==
    IF ~Bip39Valid(m)
    THEN Raise("ValueError", <<"Invalid mnemonic">>)
    ELSE LET mini == [i \in 1..32 |-> (MnemonicEntropy(m) * 53 + i * 29 + 17) % 256]
             pk == [i \in 1..32 |-> (mini[i] * 9 + i + 59) % 256]
         IN  Ok([crypto_type |-> "SR25519", seed_hex |-> mini, public_key |-> pk,
                 ss58_format |-> format, ss58_address |-> Ss58Encode(pk, format)])

\* eth_account's address of a secp256k1 private key (20 bytes, hex text).
EthAddress(key) ==
    <<"0", "x">> \o ToHex([i \in 1..20 |-> (key[i] * 11 + key[i + 12] + 7) % 256])

\* Account.from_mnemonic(mnemonic, account_path=...): refuses unless the
\* class flag was enabled; reports invalid words by quoting them.
AccountFromMnemonic(m, enabled) ==
    IF ~enabled
    THEN Raise("AttributeError",
               <<"The use of the Mnemonic features of Account is disabled by default">>)
    ELSE IF ~Bip39Valid(m)
    THEN Raise("ValidationError",
               <<"Provided words: '">> \o m
               \o <<"', are not a valid BIP39 mnemonic phrase!">>)
    ELSE LET key == Bip32Derive(Bip39SeedGenerate(m).value, PathEthereum)
         IN  Ok([address |-> EthAddress(key), key |-> key])

(***************************************************************************)
(* The three derivations.  Each yields [result, enabled]: what it returns  *)
(* or raises, and the Account class flag after the call.                   *)
(***************************************************************************)
\* A derive_ethereum that reads the flag before enabling it.
derive_ethereum_enable_after(m, enabled) ==
    [result |-> AccountFromMnemonic(m, enabled), enabled |-> TRUE]

derive_ethereum(m, enabled) ==
    [result |-> AccountFromMnemonic(m, TRUE), enabled |-> TRUE]

derive_matrixchain_sr25519(m, enabled) ==
    [result |-> KeypairCreateFromUri(m, SS58_FORMAT), enabled |-> enabled]

\* A derivation that forgets the "0x" prefix: 32 hex digits, half the key.
SnapSeedStrNoPrefix(priv_key_raw) == Take(ToHex(priv_key_raw), 32)

\* Steps 3 and 4: "0x" + hex, then the first 32 characters.
SnapSeedStr(priv_key_raw) == Take(<<"0", "x">> \o ToHex(priv_key_raw), 32)

derive_enjin_snap_ed25519(m, enabled) ==
    LET bip39_seed == Bip39SeedGenerate(m)
    IN  IF ~bip39_seed.ok THEN [result |-> bip39_seed, enabled |-> enabled]
        ELSE LET priv == Bip32Derive(bip39_seed.value, PathSnap)
                 seed_bytes == Utf8Encode(SnapSeedStr(priv))
                 keypair == KeypairCreateFromSeed(seed_bytes, SS58_FORMAT)
             IN  IF ~keypair.ok THEN [result |-> keypair, enabled |-> enabled]
                 ELSE [result |-> Ok([keypair |-> keypair.value,
                                      seed_bytes |-> seed_bytes]),
                       enabled |-> enabled]

(***************************************************************************)
(* Randomness and key derivation (os.urandom, hashlib, PyNaCl).            *)
(***************************************************************************)
\* os.urandom(n) in CSPRNG state st; the generator then moves to st + 1.
\* Distinct states give distinct outputs (a CSPRNG does not repeat).
Urandom(n, st) == Bytes([i \in 1..n |-> (st * 41 + i * 13 + 5) % 256])

RECURSIVE Pow2(_)
Pow2(k) == IF k = 0 THEN 1 ELSE 2 * Pow2(k - 1)

RECURSIVE Log2Floor(_)
Log2Floor(n) == IF n <= 1 THEN 0 ELSE 1 + Log2Floor(n \div 2)

IsPow2(n) == n >= 1 /\ Pow2(Log2Floor(n)) = n

Log2(n) == Log2Floor(n)

RECURSIVE WeightedSumTo(_, _)
WeightedSumTo(b, n) == IF n = 0 THEN 0 ELSE b[n] * n + WeightedSumTo(b, n - 1)

WeightedSum(b) == WeightedSumTo(b, Len(b))

\* scrypt itself: dklen bytes determined by the password, the salt and the
\* cost parameters (different inputs give different keys).
Scrypt(password_bytes, salt, n, r, p, dklen) ==
    LET d == (WeightedSum(password_bytes) * 7 + Log2(n) * 13 + r * 17 + p * 19) % 256
    IN  Bytes([i \in 1..dklen |-> (d + salt[((i - 1) % Len(salt)) + 1] * 3 + i * 5) % 256])

\* The memory scrypt needs, as OpenSSL and PyNaCl both compute it.
ScryptMemory(n, r, p) == p * 128 * r + 32 * r * (n + 2) * 4

SCRYPT_MAX_MEM == 32 * 1024 * 1024

\* hashlib.scrypt(password, salt=, n=, r=, p=, dklen=) with maxmem left at
\* 0, that is OpenSSL's default limit of 32 MiB.
HashlibScrypt(present, password_bytes, salt, n, r, p, dklen) ==
    IF ~present
    THEN Raise("AttributeError", <<"module 'hashlib' has no attribute 'scrypt'">>)
    ELSE IF ~(IsPow2(n) /\ n > 1)
    THEN Raise("ValueError", <<"n must be a power of 2.">>)
    ELSE IF ScryptMemory(n, r, p) > SCRYPT_MAX_MEM
    THEN Raise("ValueError", <<"[digital envelope routines] memory limit exceeded">>)
    ELSE Ok(Scrypt(password_bytes, salt, n, r, p, dklen))

\* nacl.bindings.nacl_bindings_pick_scrypt_params(opslimit, memlimit):
\* the cost parameters PyNaCl derives from its two limits.
\* The loop "for (N_log2 = 1; N_log2 < 63; N_log2++) if (2^N_log2 > maxn/2) break".
RECURSIVE PickNLog2(_, _)
PickNLog2(k, maxn) ==
    IF k >= 63 \/ Pow2(k) > maxn \div 2 THEN k ELSE PickNLog2(k + 1, maxn)

PickScryptParams(opslimit, memlimit) ==
    LET ops == IF opslimit < 32768 THEN 32768 ELSE opslimit
        r == 8
    IN  IF ops < memlimit \div 32
        THEN [n_log2 |-> PickNLog2(1, ops \div (4 * r)), r |-> r, p |-> 1]
        ELSE LET n_log2 == PickNLog2(1, memlimit \div (r * 128))
                 maxrp == Min((ops \div 4) \div Pow2(n_log2), 1073741823)
             IN  [n_log2 |-> n_log2, r |-> r, p |-> maxrp \div r]

\* nacl.pwhash.scrypt.kdf(size, password, salt, opslimit=, memlimit=)
NaclScryptKdf(size, password_bytes, salt, opslimit, memlimit) ==
    LET prm == PickScryptParams(opslimit, memlimit)
        n == Pow2(prm.n_log2)
    IN  IF Len(salt) # 32
        THEN Raise("ValueError", <<"The salt must be exactly 32 bytes long">>)
        ELSE IF ScryptMemory(n, prm.r, prm.p) > memlimit + 65536
        THEN Raise("ValueError", <<"Memory limit would be exceeded">>)
        ELSE Ok(Scrypt(password_bytes, salt, n, prm.r, prm.p, size))

\* The cost parameters the key of a PyNaCl kdf call was derived with.
NaclScryptParams(opslimit, memlimit) ==
    LET prm == PickScryptParams(opslimit, memlimit)
    IN  [n |-> Pow2(prm.n_log2), r |-> prm.r, p |-> prm.p]

(***************************************************************************)
(* nacl.secret.SecretBox: xsalsa20-poly1305.                               *)
(***************************************************************************)
Keystream(key, nonce, i) ==
    (key[((i - 1) % Len(key)) + 1] * 3 + nonce[((i - 1) % Len(nonce)) + 1] * 5 + i * 7) % 256

StreamXor(key, nonce, data) ==
    Bytes([i \in 1..Len(data) |-> (data[i] + Keystream(key, nonce, i)) % 256])

StreamUnxor(key, nonce, data) ==
    Bytes([i \in 1..Len(data) |-> (data[i] + 256 - Keystream(key, nonce, i)) % 256])

Poly1305(key, nonce, ciphertext) ==
    LET c == SumSeq(ciphertext) % 256
    IN  Bytes([j \in 1..16 |-> (key[j] + key[j + 16] * 2 + nonce[j] + c + j) % 256])

\* SecretBox(key).encrypt(plaintext, nonce): nonce, then tag, then ciphertext.
SecretBoxEncrypt(key, plaintext, nonce) ==
    IF Len(key) # 32
    THEN Raise("ValueError", <<"The key must be exactly 32 bytes long">>)
    ELSE IF Len(nonce) # 24
    THEN Raise("ValueError", <<"The nonce must be exactly 24 bytes long">>)
    ELSE LET ct == StreamXor(key, nonce, plaintext)
         IN  Ok(nonce \o Poly1305(key, nonce, ct) \o ct)

(***************************************************************************)
(* build_keystore                                                          *)
(***************************************************************************)
pkcs8_header == <<48, 83, 2, 1, 1, 48, 5, 6, 3, 43, 101, 112, 4, 34, 4, 32>>

pkcs8_divider == <<161, 35, 3, 33, 0>>

\* A plaintext that leaves the divider out.
KeystorePlaintextNoDivider(seed_bytes, public_key) ==
    pkcs8_header \o seed_bytes \o public_key

KeystorePlaintext(seed_bytes, public_key) ==
    pkcs8_header \o seed_bytes \o pkcs8_divider \o public_key

\* A salt taken from a generator re-seeded at every call.
KeystoreSaltReseeded(st) == Urandom(32, 0)

KeystoreSalt(st) == Urandom(32, st)

KeystoreNonce(st) == Urandom(24, st)

\* A key that does not depend on the password.
KeystoreKeyNoPassword(present, password_bytes, salt, scrypt_n, scrypt_r, scrypt_p) ==
    Ok(Scrypt(<<>>, salt, scrypt_n, scrypt_r, scrypt_p, 32))

\* The try/except around the key derivation: hashlib.scrypt, and PyNaCl's
\* scrypt.kdf when hashlib has no scrypt.  Any other error propagates.
KeystoreKey(present, password_bytes, salt, scrypt_n, scrypt_r, scrypt_p) ==
    LET h == HashlibScrypt(present, password_bytes, salt, scrypt_n, scrypt_r, scrypt_p, 32)
    IN  IF h.ok THEN h
        ELSE IF h.type = "AttributeError"
        THEN NaclScryptKdf(32, password_bytes, salt, scrypt_n, 128 * scrypt_n * scrypt_r)
        ELSE h

\* The cost parameters the key was actually derived with, per path.
KeystoreKeyParams(present, scrypt_n, scrypt_r, scrypt_p) ==
    IF present
    THEN [kdf |-> "hashlib.scrypt", n |-> scrypt_n, r |-> scrypt_r, p |-> scrypt_p]
    ELSE LET prm == NaclScryptParams(scrypt_n, 128 * scrypt_n * scrypt_r)
         IN  [kdf |-> "nacl.pwhash.scrypt", n |-> prm.n, r |-> prm.r, p |-> prm.p]

\* A blob that keeps the nonce copy encrypt() prepends.
KeystoreEncryptedKeepNonce(box_out) == box_out

\* box.encrypt(plaintext, nonce)[24:]
KeystoreEncrypted(box_out) == Drop(box_out, 24)

\* A blob that writes r before p.
KeystoreEncodedBytesRP(salt, scrypt_n, scrypt_p, scrypt_r, nonce, encrypted) ==
    salt \o StructPackLE32(scrypt_n) \o StructPackLE32(scrypt_r)
         \o StructPackLE32(scrypt_p) \o nonce \o encrypted

KeystoreEncodedBytes(salt, scrypt_n, scrypt_p, scrypt_r, nonce, encrypted) ==
    salt \o StructPackLE32(scrypt_n) \o StructPackLE32(scrypt_p)
         \o StructPackLE32(scrypt_r) \o nonce \o encrypted

NoneTrace == [plaintext |-> <<>>, salt |-> <<>>, nonce |-> <<>>, key |-> <<>>,
              kdf |-> "none", n |-> 0, r |-> 0, p |-> 0]

\* A record that also carries the version field of the Web3 format.
KeystoreRecordWeb3Version(encoded_b64, keypair, now_ms) ==
    [encoded |-> encoded_b64,
     encoding |-> [content |-> <<"pkcs8", "ed25519">>,
                   type |-> <<"scrypt", "xsalsa20-poly1305">>,
                   version |-> "3"],
     address |-> keypair.ss58_address,
     version |-> 3,
     meta |-> [name |-> "Enjin Snap", whenCreated |-> now_ms]]

\* The dict build_keystore returns; whenCreated is int(time.time() * 1000).
KeystoreRecord(encoded_b64, keypair, now_ms) ==
    [encoded |-> encoded_b64,
     encoding |-> [content |-> <<"pkcs8", "ed25519">>,
                   type |-> <<"scrypt", "xsalsa20-poly1305">>,
                   version |-> "3"],
     address |-> keypair.ss58_address,
     meta |-> [name |-> "Enjin Snap", whenCreated |-> now_ms]]

\* build_keystore(keypair, seed_bytes, password) in CSPRNG state st, on a
\* Python build with (present) or without hashlib.scrypt, at time now_ms.
\* Yields what it returns or raises, the CSPRNG state it leaves, and its
\* local values (trace).
build_keystore(keypair, seed_bytes, password, st, present, now_ms) ==
    LET plaintext == KeystorePlaintext(seed_bytes, keypair.public_key)
        scrypt_n == Pow2(15)
        scrypt_p == 1
        scrypt_r == 8
        salt == KeystoreSalt(st)
        password_bytes == Utf8Encode(password)
        key == KeystoreKey(present, password_bytes, salt, scrypt_n, scrypt_r, scrypt_p)
        used == KeystoreKeyParams(present, scrypt_n, scrypt_r, scrypt_p)
        nonce == KeystoreNonce(st + 1)
        box == SecretBoxEncrypt(key.value, plaintext, nonce)
        encrypted == KeystoreEncrypted(box.value)
        encoded_bytes ==
            KeystoreEncodedBytes(salt, scrypt_n, scrypt_p, scrypt_r, nonce, encrypted)
        t0 == [NoneTrace EXCEPT !.plaintext = plaintext, !.salt = salt]
        t1 == [t0 EXCEPT !.key = key.value, !.kdf = used.kdf, !.n = used.n,
                         !.r = used.r, !.p = used.p, !.nonce = nonce]
    IN  IF ~key.ok THEN [result |-> key, rng |-> st + 1, trace |-> t0]
        ELSE IF ~box.ok THEN [result |-> box, rng |-> st + 2, trace |-> t1]
        ELSE [result |-> Ok(KeystoreRecord(Base64Encode(encoded_bytes), keypair, now_ms)),
              rng |-> st + 2,
              trace |-> t1]

(***************************************************************************)
(* build_web3_keystore: eth_account's Account.encrypt (Web3 Secret Storage *)
(* v3: scrypt, aes-128-ctr, keccak MAC).                                   *)
(***************************************************************************)
HexValue(c) == (CHOOSE i \in 1..16 : HexDigits[i] = c) - 1

\* The bytes of "0x"-prefixed hex text.
FromHex(h) ==
    LET d == Drop(h, 2)
    IN  [i \in 1..(Len(d) \div 2) |-> HexValue(d[2 * i - 1]) * 16 + HexValue(d[2 * i])]

KeccakMac(derived_key, ciphertext) ==
    LET c == WeightedSum(ciphertext) % 256
    IN  Bytes([j \in 1..32 |-> (derived_key[16 + ((j - 1) % 16) + 1] * 3 + c + j) % 256])

\* A keystore whose key does not depend on the password.
AccountEncryptNoPassword(private_key_hex, password, st) ==
    LET key_bytes == FromHex(private_key_hex)
        salt == Urandom(16, st)
        iv == Urandom(16, st + 1)
        derived == Scrypt(<<>>, salt, Pow2(18), 8, 1, 32)
        ciphertext == StreamXor(Take(derived, 16), iv, key_bytes)
    IN  [result |->
            Ok([address |-> Drop(EthAddress(key_bytes), 2),
                crypto |-> [cipher |-> "aes-128-ctr",
                            cipherparams |-> [iv |-> iv],
                            ciphertext |-> ciphertext,
                            kdf |-> "scrypt",
                            kdfparams |-> [dklen |-> 32, n |-> Pow2(18), r |-> 8,
                                           p |-> 1, salt |-> salt],
                            mac |-> KeccakMac(derived, ciphertext)],
                id |-> Urandom(16, st + 2),
                version |-> 3]),
         rng |-> st + 3]

AccountEncrypt(private_key_hex, password, st) ==
    LET key_bytes == FromHex(private_key_hex)
        salt == Urandom(16, st)
        iv == Urandom(16, st + 1)
        derived == Scrypt(Utf8Encode(password), salt, Pow2(18), 8, 1, 32)
        ciphertext == StreamXor(Take(derived, 16), iv, key_bytes)
    IN  IF Len(key_bytes) # 32
        THEN [result |-> Raise("ValueError", <<"The private key must be exactly 32 bytes long">>),
              rng |-> st]
        ELSE [result |->
                Ok([address |-> Drop(EthAddress(key_bytes), 2),
                    crypto |-> [cipher |-> "aes-128-ctr",
                                cipherparams |-> [iv |-> iv],
                                ciphertext |-> ciphertext,
                                kdf |-> "scrypt",
                                kdfparams |-> [dklen |-> 32, n |-> Pow2(18), r |-> 8,
                                               p |-> 1, salt |-> salt],
                                mac |-> KeccakMac(derived, ciphertext)],
                    id |-> Urandom(16, st + 2),
                    version |-> 3]),
              rng |-> st + 3]

build_web3_keystore(private_key_hex, password, st) ==
    AccountEncrypt(private_key_hex, password, st)

(***************************************************************************)
(* The environment of a process.                                           *)
(***************************************************************************)
\* Readings of time.time(), in milliseconds.
Clock == {1500, 61001}

\* The state the operating system's CSPRNG may be in when the process starts.
RngStates == {0, 7}

(***************************************************************************)
(* The prompts: ask_yes_no, ask_choice, get_password_confirm.  What the    *)
(* user does at a prompt is an event: a line of text, an interrupt         *)
(* (KeyboardInterrupt) or end of input (EOFError).                         *)
(***************************************************************************)
max_retries == 3

\* Nothing has been read from standard input yet.
NoEvent == [kind |-> "none", text |-> <<>>]

TextEvent(t) == [kind |-> "text", text |-> t]

Events(texts) ==
    {TextEvent(t) : t \in texts}
        \cup {[kind |-> "interrupt", text |-> <<>>], [kind |-> "eof", text |-> <<>>]}

\* An ask_yes_no that takes every answer other than a no for a yes.
AskYesNoParseElseYes(text, default) ==
    LET stripped == Lower(Strip(text))
        ans == IF stripped = <<>> /\ default # <<>> THEN default ELSE stripped
    IN  IF ans \in {<<"n">>, <<"n", "o">>} THEN "false" ELSE "true"

\* What one pass of ask_yes_no's loop makes of a line: "true", "false" or
\* "invalid".
AskYesNoParse(text, default) ==
    LET stripped == Lower(Strip(text))
        ans == IF stripped = <<>> /\ default # <<>> THEN default ELSE stripped
    IN  IF ans \in {<<"y">>, <<"y", "e", "s">>} THEN "true"
        ELSE IF ans \in {<<"n">>, <<"n", "o">>} THEN "false"
        ELSE "invalid"

\* What one pass of ask_choice's loop makes of a line: the choice, or <<>>.
AskChoiceParse(text, choices, default) ==
    LET stripped == Strip(text)
        ans == IF stripped = <<>> /\ default # <<>> THEN default ELSE stripped
    IN  IF ans \in choices THEN ans ELSE <<>>

\* A get_password_confirm that takes an empty first entry.
PasswordEntryAny(pw) == TRUE

\* "if not pw": the first entry is refused when empty.
PasswordEntryOk(pw) == pw # <<>>

\* "if pw != confirm"
PasswordConfirmOk(pw, confirm) == pw = confirm

(***************************************************************************)
(* One run of the program: main().                                         *)
(***************************************************************************)
Rule60Eq == <<"============================================================">>
Rule60Dash == <<"------------------------------------------------------------">>

\* MNEMONIC values a .env file may hold.
EnvValues ==
    {<<>>, <<" ">>, <<" ">> \o MnemonicA \o <<" ">>, MnemonicBad}

YesNoTexts == {<<"Y", " ">>, <<" ", "Y", "E", "S">>, <<"N", "o", " ">>, <<>>, <<"m">>}

ChoiceTexts == {<<"1">>, <<" ", "2">>, <<>>, <<"3">>}

PasswordTexts == {<<>>, <<"a">>, <<"b", "c">>}

Init ==
    /\ hdwallet_enabled = FALSE
    /\ rng = 0
    /\ has_hashlib_scrypt \in BOOLEAN
    /\ calls = <<>>
    /\ pc = "load_setup"
    /\ env_file \in [exists : {TRUE}, value : EnvValues]
                        \cup {[exists |-> FALSE, value |-> <<>>]}
    /\ os_environ = [set |-> FALSE, value |-> <<>>]
    /\ mnemonic = <<>>
    /\ attempts = 0
    /\ pw_entry = <<>>
    /\ pw_confirm = <<>>
    /\ export_password = <<>>
    /\ choice = <<>>
    /\ snap = <<>>
    /\ console = <<>>
    /\ files = <<>>
    /\ enc_calls = <<>>
    /\ exit_status = -1
    /\ answer = NoEvent

Say(lines) == console' = console \o lines

\* sys.exit(1) after printing lines.
Exit(lines) ==
    /\ Say(lines)
    /\ pc' = "exited"
    /\ exit_status' = 1

\* main() prints its closing rule and returns.
FinishMain(lines) ==
    /\ Say(lines \o <<Rule60Eq>>)
    /\ pc' = "done"
    /\ exit_status' = 0

\* load_mnemonic, before its loop: create .env when it is missing, from
\* .env.example when there is one, else from a template.
LoadMnemonicSetup ==
    /\ pc = "load_setup"
    /\ pc' = "load_loop"
    /\ IF env_file.exists
       THEN UNCHANGED <<env_file, console, files>>
       ELSE \E example_exists \in BOOLEAN, written \in BOOLEAN :
            IF written
            THEN /\ env_file' = [exists |-> TRUE, value |-> <<>>]
                 /\ files' = Append(files,
                        [name |-> <<".env">>, kind |-> "text",
                         content |-> <<"MNEMONIC=", "DQUOTE", "DQUOTE", "\n">>])
                 /\ Say(IF example_exists
                        THEN <<<<"Created .env from .env.example. Please edit .env and add your MNEMONIC.">>>>
                        ELSE <<<<"Created .env template. Please edit .env and add your MNEMONIC.">>>>)
            ELSE /\ UNCHANGED <<env_file, files>>
                 /\ Say(<<<<IF example_exists
                            THEN "Error creating .env from example: "
                            ELSE "Error creating .env: ", "[Errno 13] Permission denied">>,
                          <<"Please create a .env file with: MNEMONIC=...">>>>)
    /\ UNCHANGED <<answer, hdwallet_enabled, rng, has_hashlib_scrypt, calls, os_environ,
                   mnemonic, attempts, pw_entry, pw_confirm, export_password,
                   choice, snap, enc_calls, exit_status>>

\* load_dotenv(dotenv_path): a variable of the file is set in os.environ
\* unless os.environ already has it (override is off).
LoadDotenv(file, environ) ==
    IF file.exists /\ ~environ.set
    THEN [set |-> TRUE, value |-> file.value]
    ELSE environ

NotFoundLine == <<"\nMNEMONIC not found or empty in .env file.">>

\* How many passes of load_mnemonic's loop have found no mnemonic so far.
Rechecks == Cardinality({i \in DOMAIN console : console[i] = NotFoundLine})

\* One pass of load_mnemonic's loop up to its prompt.  The loop itself has no
\* bound; the exploration stops after MaxRechecks empty passes.
LoadMnemonicLoop ==
    /\ pc = "load_loop"
    /\ Rechecks < MaxRechecks
    /\ os_environ' = LoadDotenv(env_file, os_environ)
    /\ attempts' = 0
    /\ IF os_environ'.set /\ os_environ'.value # <<>> /\ Strip(os_environ'.value) # <<>>
       THEN /\ pc' = "confirm_prompt"
            /\ Say(<<<<"\nReminder: Your recovery phrase should be placed in the .env file as:">>,
                     <<"  MNEMONIC=...">>,
                     <<"For maximum security, enter this on an offline machine and avoid sharing the file.">>>>)
       ELSE /\ pc' = "recheck_prompt"
            /\ Say(<<NotFoundLine,
                     <<"  Please open .env and add your recovery phrase in the following form:">>,
                     <<"    MNEMONIC=...">>>>)
    /\ UNCHANGED <<answer, hdwallet_enabled, rng, has_hashlib_scrypt, calls, env_file,
                   mnemonic, pw_entry, pw_confirm, export_password, choice, snap,
                   files, enc_calls, exit_status>>

\* The user edits .env while the program waits at the re-check prompt.
EditEnv ==
    /\ pc = "recheck_prompt"
    /\ \E v \in EnvValues : env_file' = [exists |-> TRUE, value |-> v]
    /\ env_file' # env_file
    /\ UNCHANGED <<answer, hdwallet_enabled, rng, has_hashlib_scrypt, calls, pc,
                   os_environ,
                   mnemonic, attempts, pw_entry, pw_confirm, export_password,
                   choice, snap, console, files, enc_calls, exit_status>>

\* A confirmation that takes "yes" as well, as ask_yes_no does.
ConfirmProceedYesToo(text) == Lower(Strip(text)) \in {<<"y">>, <<"y", "e", "s">>}

\* proceed = input(...).strip().lower(); if proceed == 'y'
ConfirmProceed(text) == Lower(Strip(text)) = <<"y">>

\* The answer to "Do you want to continue and use the mnemonic from .env?".
\* Only KeyboardInterrupt is caught here; EOFError ends the process with a
\* traceback.
ConfirmAnswer ==
    /\ pc = "confirm_prompt"
    /\ \E ev \in Events(YesNoTexts) :
        /\ answer' = ev
        /\ CASE ev.kind = "interrupt" ->
                   /\ Exit(<<<<"\nAborted by user.">>>>)
                   /\ UNCHANGED mnemonic
             [] ev.kind = "eof" ->
                   /\ Exit(<<<<"Traceback (most recent call last): EOFError">>>>)
                   /\ UNCHANGED mnemonic
             [] OTHER ->
                   IF ConfirmProceed(ev.text)
                   THEN /\ mnemonic' = Strip(os_environ.value)
                        /\ pc' = "derive_ethereum"
                        /\ Say(<<Rule60Eq>>)
                        /\ UNCHANGED exit_status
                   ELSE /\ Exit(<<<<"Aborting. Edit or remove .env as needed and run the script again when ready.">>>>)
                        /\ UNCHANGED mnemonic
    /\ UNCHANGED <<hdwallet_enabled, rng, has_hashlib_scrypt, calls, env_file,
                   os_environ, attempts, pw_entry, pw_confirm, export_password,
                   choice, snap, files, enc_calls>>

\* One pass of an ask_yes_no loop waiting at position at: on_true and
\* on_false are where the program goes on, each with what it prints first.
AskYesNoPass(at, default, true_pc, true_lines, false_exit, false_lines) ==
    /\ pc = at
    /\ \E ev \in Events(YesNoTexts) :
        /\ answer' = ev
        /\ IF ev.kind # "text"
           THEN /\ Exit(<<<<"\nAborted by user.">>>>)
                /\ UNCHANGED attempts
           ELSE LET ans == AskYesNoParse(ev.text, default)
                IN  CASE ans = "true" ->
                           /\ pc' = true_pc
                           /\ Say(true_lines)
                           /\ attempts' = 0
                           /\ UNCHANGED exit_status
                      [] ans = "false" ->
                           /\ IF false_exit THEN Exit(false_lines) ELSE FinishMain(false_lines)
                           /\ UNCHANGED attempts
                      [] OTHER ->
                           IF attempts + 1 < max_retries
                           THEN /\ attempts' = attempts + 1
                                /\ Say(<<<<"Please answer 'y' or 'n'.">>>>)
                                /\ UNCHANGED <<pc, exit_status>>
                           ELSE /\ attempts' = attempts + 1
                                /\ Exit(<<<<"Please answer 'y' or 'n'.">>,
                                         <<"Too many invalid responses. Aborting.">>>>)

\* The answer to "Have you added your MNEMONIC to .env and want to continue?".
RecheckAnswer ==
    /\ AskYesNoPass("recheck_prompt", <<"n">>, "load_loop", <<>>, TRUE,
                    <<<<"Aborting. Add your MNEMONIC to .env and run the script again when ready.">>>>)
    /\ UNCHANGED <<hdwallet_enabled, rng, has_hashlib_scrypt, calls, env_file,
                   os_environ, mnemonic, pw_entry, pw_confirm, export_password,
                   choice, snap, files, enc_calls>>

\* A main whose first handler leaves out the sr25519 step.
MainStepAfterSkipsSr25519(step) ==
    IF step = "derive_ethereum" THEN "derive_snap" ELSE "derive_snap"

\* The statement of main that follows a derivation's try/except, whether the
\* derivation returned or raised.
MainStepAfter(step) ==
    IF step = "derive_ethereum" THEN "derive_matrixchain" ELSE "derive_snap"

\* The record of a derivation main has called.
Attempt(fn, r) ==
    Append(calls, [fn |-> fn, mnemonic |-> mnemonic,
                   pre_enabled |-> hdwallet_enabled, result |-> r.result])

\* main, step 1: the Ethereum address, or the error's text.
DeriveEthereumStep ==
    /\ pc = "derive_ethereum"
    /\ LET r == derive_ethereum(mnemonic, hdwallet_enabled)
       IN  /\ hdwallet_enabled' = r.enabled
           /\ Say(<<IF r.result.ok
                    THEN <<"Ethereum (m/44'/60'/0'/0/0):\n  ">> \o r.result.value.address
                    ELSE <<"Error generating Ethereum address: ">> \o r.result.message,
                    Rule60Dash>>)
           /\ calls' = Attempt("derive_ethereum", r)
    /\ pc' = MainStepAfter("derive_ethereum")
    /\ UNCHANGED <<answer, rng, has_hashlib_scrypt, env_file, os_environ, mnemonic,
                   attempts, pw_entry, pw_confirm, export_password, choice, snap,
                   files, enc_calls, exit_status>>

\* main, step 2: the Matrixchain sr25519 address, or the error's text.
DeriveMatrixchainStep ==
    /\ pc = "derive_matrixchain"
    /\ LET r == derive_matrixchain_sr25519(mnemonic, hdwallet_enabled)
       IN  /\ hdwallet_enabled' = r.enabled
           /\ Say(<<IF r.result.ok
                    THEN <<"Matrixchain sr25519 (blank derivation):\n  ">>
                         \o r.result.value.ss58_address
                    ELSE <<"Error generating sr25519 address: ">> \o r.result.message,
                    Rule60Dash>>)
           /\ calls' = Attempt("derive_matrixchain_sr25519", r)
    /\ pc' = MainStepAfter("derive_matrixchain")
    /\ UNCHANGED <<answer, rng, has_hashlib_scrypt, env_file, os_environ, mnemonic,
                   attempts, pw_entry, pw_confirm, export_password, choice, snap,
                   files, enc_calls, exit_status>>

\* main, step 3 up to export_keystore's first prompt: the Snap address, its
\* public key and the private key (hex seed); or the error's text.
DeriveSnapStep ==
    /\ pc = "derive_snap"
    /\ LET r == derive_enjin_snap_ed25519(mnemonic, hdwallet_enabled)
       IN  /\ hdwallet_enabled' = r.enabled
           /\ calls' = Attempt("derive_enjin_snap_ed25519", r)
           /\ IF r.result.ok
              THEN /\ snap' = r.result.value
                   /\ pc' = "export_prompt"
                   /\ attempts' = 0
                   /\ Say(<<<<"Enjin Snap ed25519 (m/44'/1155' seed logic):\n  ">>
                               \o r.result.value.keypair.ss58_address,
                            <<"  Public key: 0x">>
                               \o ToHex(r.result.value.keypair.public_key),
                            Rule60Dash,
                            <<"Private key (hex seed) for wallet import:\n  ">>
                               \o <<"0", "x">> \o ToHex(r.result.value.seed_bytes),
                            Rule60Dash,
                            <<"Generate JSON keystore file for Enjin Wallet import?">>>>)
                   /\ UNCHANGED exit_status
              ELSE /\ FinishMain(<<<<"Error generating Enjin Snap address: ">>
                                     \o r.result.message>>)
                   /\ UNCHANGED <<snap, attempts>>
    /\ UNCHANGED <<answer, rng, has_hashlib_scrypt, env_file, os_environ, mnemonic,
                   pw_entry, pw_confirm, export_password, choice, files, enc_calls>>

\* export_keystore: the answer to "Export keystore? (y/n)".
ExportAnswer ==
    /\ AskYesNoPass("export_prompt", <<"n">>, "pw_prompt", <<>>, FALSE, <<>>)
    /\ UNCHANGED <<hdwallet_enabled, rng, has_hashlib_scrypt, calls, env_file,
                   os_environ, mnemonic, pw_entry, pw_confirm, export_password,
                   choice, snap, files, enc_calls>>

\* A failed pass of get_password_confirm's loop: back to the first prompt,
\* or out after max_retries passes.
PasswordRetry(line) ==
    /\ attempts' = attempts + 1
    /\ IF attempts + 1 < max_retries
       THEN /\ pc' = "pw_prompt"
            /\ Say(<<line>>)
            /\ UNCHANGED exit_status
       ELSE Exit(<<line, <<"Too many invalid password attempts. Aborting.">>>>)

\* get_password_confirm: the first entry.
PasswordEntry ==
    /\ pc = "pw_prompt"
    /\ \E ev \in Events(PasswordTexts) :
        /\ answer' = ev
        /\ IF ev.kind # "text"
           THEN /\ Exit(<<<<"\nAborted by user.">>>>)
                /\ UNCHANGED <<attempts, pw_entry>>
           ELSE IF PasswordEntryOk(ev.text)
           THEN /\ pw_entry' = ev.text
                /\ pc' = "pw_confirm_prompt"
                /\ UNCHANGED <<attempts, console, exit_status>>
           ELSE /\ PasswordRetry(<<"  Error: Password cannot be empty.">>)
                /\ pw_entry' = ev.text
    /\ UNCHANGED <<hdwallet_enabled, rng, has_hashlib_scrypt, calls, env_file,
                   os_environ, mnemonic, pw_confirm, export_password, choice,
                   snap, files, enc_calls>>

\* get_password_confirm: the confirmation entry; on a match the password is
\* returned to export_keystore, which prints its format menu.
PasswordConfirm ==
    /\ pc = "pw_confirm_prompt"
    /\ \E ev \in Events(PasswordTexts) :
        /\ answer' = ev
        /\ IF ev.kind # "text"
           THEN /\ Exit(<<<<"\nAborted by user.">>>>)
                /\ UNCHANGED <<attempts, pw_confirm, export_password>>
           ELSE /\ pw_confirm' = ev.text
                /\ IF PasswordConfirmOk(pw_entry, ev.text)
                   THEN /\ export_password' = pw_entry
                        /\ pc' = "choice_prompt"
                        /\ attempts' = 0
                        /\ Say(<<<<"  Keystore format:">>,
                                 <<"    1) Ethereum v3 (Web3) - supported by Enjin Wallet and compatible with Ethereum wallets (default)">>,
                                 <<"    2) Polkadot-style (scrypt + xsalsa20-poly1305)">>>>)
                        /\ UNCHANGED exit_status
                   ELSE /\ PasswordRetry(<<"  Error: Passwords do not match.">>)
                        /\ UNCHANGED export_password
    /\ UNCHANGED <<hdwallet_enabled, rng, has_hashlib_scrypt, calls, env_file,
                   os_environ, mnemonic, pw_entry, choice, snap, files, enc_calls>>

\* export_keystore: the answer to "Select format [1]" (ask_choice).
ChoiceAnswer ==
    /\ pc = "choice_prompt"
    /\ \E ev \in Events(ChoiceTexts) :
        /\ answer' = ev
        /\ IF ev.kind # "text"
           THEN /\ Exit(<<<<"\nAborted by user.">>>>)
                /\ UNCHANGED <<attempts, choice>>
           ELSE LET ans == AskChoiceParse(ev.text, {<<"1">>, <<"2">>}, <<"1">>)
                IN  IF ans # <<>>
                    THEN /\ choice' = [answer |-> ev.text, value |-> ans]
                         /\ pc' = "encode"
                         /\ UNCHANGED <<attempts, console, exit_status>>
                    ELSE /\ attempts' = attempts + 1
                         /\ UNCHANGED choice
                         /\ IF attempts + 1 < max_retries
                            THEN /\ Say(<<<<"Invalid selection; choose one of: 1, 2">>>>)
                                 /\ UNCHANGED <<pc, exit_status>>
                            ELSE Exit(<<<<"Invalid selection; choose one of: 1, 2">>,
                                        <<"Too many invalid responses. Aborting.">>>>)
    /\ UNCHANGED <<hdwallet_enabled, rng, has_hashlib_scrypt, calls, env_file,
                   os_environ, mnemonic, pw_entry, pw_confirm, export_password,
                   snap, files, enc_calls>>

\* A menu read the other way round.
KeystoreFormatSwapped(value) == IF value = <<"1">> THEN "polkadot" ELSE "web3"

\* fmt = 'web3' if choice == '1' else 'polkadot'
KeystoreFormat(value) == IF value = <<"1">> THEN "web3" ELSE "polkadot"

\* str(int(time.time()))
Timestamp(now_ms) == <<ToString(now_ms \div 1000)>>

\* export_keystore from the format on: build the keystore of the chosen
\* format, write it to its file, report.  An error of build_web3_keystore is
\* reported here; any other error reaches main's handler of step 3.
ExportEncode ==
    /\ pc = "encode"
    /\ \E now_ms \in Clock, writable \in BOOLEAN :
        IF KeystoreFormat(choice.value) = "web3"
        THEN LET private_key_hex == <<"0", "x">> \o ToHex(snap.seed_bytes)
                 r == build_web3_keystore(private_key_hex, export_password, rng)
                 filename == <<"enjin-snap-keystore-web3-">>
                             \o Take(r.result.value.address, 8)
                             \o <<"-">> \o Timestamp(now_ms) \o <<".json">>
             IN  /\ rng' = r.rng
                 /\ enc_calls' = Append(enc_calls,
                        [encoder |-> "build_web3_keystore",
                         password |-> export_password,
                         private_key_hex |-> private_key_hex,
                         result |-> r.result])
                 /\ IF ~r.result.ok
                    THEN /\ FinishMain(<<<<"  Error building Web3 keystore: ">>
                                           \o r.result.message>>)
                         /\ UNCHANGED files
                    ELSE IF ~writable
                    THEN /\ FinishMain(<<<<"Error generating Enjin Snap address: ",
                                           "[Errno 13] Permission denied: ">> \o filename>>)
                         /\ UNCHANGED files
                    ELSE /\ files' = Append(files, [name |-> filename, kind |-> "json",
                                                    content |-> r.result.value])
                         /\ FinishMain(<<<<"\n  Web3 keystore saved to: ">> \o filename,
                                         <<"  Address: ">> \o r.result.value.address,
                                         <<"  Format: Web3 secret storage (v3)">>,
                                         <<"\n  Import this into Enjin Wallet via:">>,
                                         <<"    Settings > Wallets > Add Wallet > Import Wallet > Import Keystore">>,
                                         <<"    Copy the content of the exported file and paste in the 'Import Keystore' field.">>,
                                         <<"    Input the password in the 'Encryption Password' field.">>>>)
        ELSE LET r == build_keystore(snap.keypair, snap.seed_bytes, export_password,
                                     rng, has_hashlib_scrypt, now_ms)
                 filename == <<"enjin-snap-keystore-">>
                             \o Take(snap.keypair.ss58_address, 8)
                             \o <<"-">> \o Timestamp(now_ms) \o <<".json">>
             IN  /\ rng' = r.rng
                 /\ enc_calls' = Append(enc_calls,
                        [encoder |-> "build_keystore",
                         password |-> export_password,
                         keypair |-> snap.keypair,
                         seed_bytes |-> snap.seed_bytes,
                         result |-> r.result])
                 /\ IF ~r.result.ok
                    THEN /\ FinishMain(<<<<"Error generating Enjin Snap address: ">>
                                           \o r.result.message>>)
                         /\ UNCHANGED files
                    ELSE IF ~writable
                    THEN /\ FinishMain(<<<<"Error generating Enjin Snap address: ",
                                           "[Errno 13] Permission denied: ">> \o filename>>)
                         /\ UNCHANGED files
                    ELSE /\ files' = Append(files, [name |-> filename, kind |-> "json",
                                                    content |-> r.result.value])
                         /\ FinishMain(<<<<"\n  Keystore saved to: ">> \o filename,
                                         <<"  Address: ">> \o snap.keypair.ss58_address,
                                         <<"  Encoding: scrypt + xsalsa20-poly1305 (ed25519)">>,
                                         <<"\n  Note: Enjin Wallet currently does not support importing Polkadot-style keystore files.">>,
                                         <<"  You may try importing this file into Ethereum-compatible wallets, but compatibility is not guaranteed.">>>>)
    /\ UNCHANGED <<answer, hdwallet_enabled, has_hashlib_scrypt, calls, env_file,
                   os_environ,
                   mnemonic, attempts, pw_entry, pw_confirm, export_password,
                   choice, snap>>

Next ==
    \/ LoadMnemonicSetup
    \/ LoadMnemonicLoop
    \/ EditEnv
    \/ ConfirmAnswer
    \/ RecheckAnswer
    \/ DeriveEthereumStep
    \/ DeriveMatrixchainStep
    \/ DeriveSnapStep
    \/ ExportAnswer
    \/ PasswordEntry
    \/ PasswordConfirm
    \/ ChoiceAnswer
    \/ ExportEncode

Spec == Init /\ [][Next]_vars

(***************************************************************************)
(* Library-level harnesses: clients call the derivations and the encoders  *)
(* in any order, any number of times (up to MaxCalls), in one process.     *)
(* SpecDerive varies the derivations' inputs, SpecEncode the encoders'.    *)
(***************************************************************************)
Passwords == {<<"a">>, <<"b", "c">>}

SnapAccountOf(m) == derive_enjin_snap_ed25519(m, FALSE).result.value

\* What clients hand to the encoders: the Snap account of a valid mnemonic.
SnapAccounts == {SnapAccountOf(m) : m \in {x \in Mnemonics : Bip39Valid(x)}}

ProgIdle ==
    /\ pc = "idle"
    /\ env_file = <<>>
    /\ os_environ = <<>>
    /\ mnemonic = <<>>
    /\ attempts = 0
    /\ pw_entry = <<>>
    /\ pw_confirm = <<>>
    /\ export_password = <<>>
    /\ choice = <<>>
    /\ snap = <<>>
    /\ console = <<>>
    /\ files = <<>>
    /\ enc_calls = <<>>
    /\ exit_status = -1
    /\ answer = NoEvent

InitLib ==
    /\ hdwallet_enabled = FALSE
    /\ rng \in RngStates
    /\ has_hashlib_scrypt \in BOOLEAN
    /\ calls = <<>>
    /\ ProgIdle

CallDerivation(fn, m, r) ==
    /\ Len(calls) < MaxCalls
    /\ calls' = Append(calls, [fn |-> fn, mnemonic |-> m,
                               pre_enabled |-> hdwallet_enabled,
                               result |-> r.result])
    /\ hdwallet_enabled' = r.enabled
    /\ UNCHANGED <<rng, has_hashlib_scrypt, progvars>>

CallDeriveEthereum ==
    \E m \in Mnemonics :
        CallDerivation("derive_ethereum", m, derive_ethereum(m, hdwallet_enabled))

CallDeriveMatrixchain ==
    \E m \in Mnemonics :
        CallDerivation("derive_matrixchain_sr25519", m,
                       derive_matrixchain_sr25519(m, hdwallet_enabled))

CallDeriveSnap ==
    \E m \in Mnemonics :
        CallDerivation("derive_enjin_snap_ed25519", m,
                       derive_enjin_snap_ed25519(m, hdwallet_enabled))

CallBuildKeystore(accounts, passwords) ==
    \E acct \in accounts, pwd \in passwords, now_ms \in {1500} :
        LET r == build_keystore(acct.keypair, acct.seed_bytes, pwd, rng,
                                has_hashlib_scrypt, now_ms)
        IN  /\ Len(calls) < MaxCalls
            /\ calls' = Append(calls, [fn |-> "build_keystore",
                                       keypair |-> acct.keypair,
                                       seed_bytes |-> acct.seed_bytes,
                                       password |-> pwd,
                                       result |-> r.result,
                                       trace |-> r.trace])
            /\ rng' = r.rng
            /\ UNCHANGED <<hdwallet_enabled, has_hashlib_scrypt, progvars>>

CallBuildWeb3Keystore(accounts, passwords) ==
    \E acct \in accounts, pwd \in passwords :
        LET hex == <<"0", "x">> \o ToHex(acct.seed_bytes)
            r == build_web3_keystore(hex, pwd, rng)
        IN  /\ Len(calls) < MaxCalls
            /\ calls' = Append(calls, [fn |-> "build_web3_keystore",
                                       private_key_hex |-> hex,
                                       password |-> pwd,
                                       result |-> r.result])
            /\ rng' = r.rng
            /\ UNCHANGED <<hdwallet_enabled, has_hashlib_scrypt, progvars>>

NextDerive ==
    \/ CallDeriveEthereum
    \/ CallDeriveMatrixchain
    \/ CallDeriveSnap
    \/ CallBuildKeystore({SnapAccountOf(MnemonicA)}, {<<"a">>})
    \/ CallBuildWeb3Keystore({SnapAccountOf(MnemonicA)}, {<<"a">>})

SpecDerive == InitLib /\ [][NextDerive]_vars

NextEncode ==
    \/ CallBuildKeystore(SnapAccounts, Passwords)
    \/ CallBuildWeb3Keystore(SnapAccounts, Passwords)

SpecEncode == InitLib /\ [][NextEncode]_vars

\* The calls of one function in the log.
CallsOf(fn) == {i \in 1..Len(calls) : calls[i].fn = fn}

(***************************************************************************)
(* Claims about the derivations (checked under SpecDerive).                *)
(***************************************************************************)
Derivations ==
    {"derive_ethereum", "derive_matrixchain_sr25519", "derive_enjin_snap_ed25519"}

\* The k-th hex digit (from 1) of a byte string, as a number.
Nibble(b, k) == IF k % 2 = 1 THEN b[(k + 1) \div 2] \div 16 ELSE b[k \div 2] % 16

\* The ASCII code of a lowercase hex digit.
AsciiHexDigit(n) == IF n < 10 THEN 48 + n ELSE 87 + n

\* C1: whenever derive_enjin_snap_ed25519 succeeds, seed_bytes is 32 bytes:
\* the ASCII codes of '0' and 'x', then of the first 30 lowercase hex digits
\* of the SLIP-10 private key at m/44'/1155'; and the keypair is built from
\* exactly that seed.
C1_SnapSeedIsTruncatedHexText ==
    \A i \in CallsOf("derive_enjin_snap_ed25519") :
        calls[i].result.ok =>
            LET seed == calls[i].result.value.seed_bytes
                kp == calls[i].result.value.keypair
                priv == Slip10PrivateKey(calls[i].mnemonic)
            IN  /\ Len(seed) = 32
                /\ seed[1] = 48
                /\ seed[2] = 120
                /\ \A k \in 1..30 : seed[k + 2] = AsciiHexDigit(Nibble(priv, k))
                /\ kp.seed_hex = seed
                /\ kp.public_key = Ed25519PublicKey(seed)

\* C1 witness: a successful Snap derivation whose seed holds a hex letter and
\* differs from the private key it was cut from.
C1_Witness ==
    \E i \in CallsOf("derive_enjin_snap_ed25519") :
        /\ calls[i].result.ok
        /\ \E k \in 3..32 : calls[i].result.value.seed_bytes[k] >= 97
        /\ calls[i].result.value.seed_bytes # Slip10PrivateKey(calls[i].mnemonic)

\* C2: two calls of the same derivation on the same mnemonic yield the same
\* outcome, whatever was called before or between them and whatever the
\* process-wide state was when each began.
C2_DerivationsDeterministic ==
    \A i, j \in 1..Len(calls) :
        (/\ calls[i].fn \in Derivations
         /\ calls[j].fn = calls[i].fn
         /\ calls[j].mnemonic = calls[i].mnemonic)
            => calls[i].result = calls[j].result

\* C2 witness: derive_ethereum run twice on one mnemonic with an encoder call
\* between, the first run starting with the Account flag off, the second
\* with it on.
C2_Witness ==
    /\ Len(calls) >= 3
    /\ calls[1].fn = "derive_ethereum"
    /\ calls[2].fn \in {"build_keystore", "build_web3_keystore"}
    /\ calls[3].fn = "derive_ethereum"
    /\ calls[3].mnemonic = calls[1].mnemonic
    /\ ~calls[1].pre_enabled
    /\ calls[3].pre_enabled
    /\ calls[1].result.ok

(***************************************************************************)
(* Readers of the two keystore formats (the wallet's side of the round     *)
(* trip): what a compliant reader does with a record and a password.       *)
(***************************************************************************)
Base64Value(c) == (CHOOSE i \in 1..64 : Base64Alphabet[i] = c) - 1

\* base64.b64decode(text)
Base64Decode(t) ==
    LET groups == Len(t) \div 4
        pad == IF Len(t) = 0 THEN 0
               ELSE IF t[Len(t) - 1] = "=" THEN 2
               ELSE IF t[Len(t)] = "=" THEN 1 ELSE 0
        Val(k) == IF t[k] = "=" THEN 0 ELSE Base64Value(t[k])
        Word(g) == Val(4 * g + 1) * 262144 + Val(4 * g + 2) * 4096
                   + Val(4 * g + 3) * 64 + Val(4 * g + 4)
    IN  Bytes([i \in 1..(3 * groups - pad) |->
            LET g == (i - 1) \div 3
                j == (i - 1) % 3
            IN  CASE j = 0 -> Word(g) \div 65536
                  [] j = 1 -> (Word(g) \div 256) % 256
                  [] OTHER -> Word(g) % 256])

\* The unsigned integer of 4 little-endian bytes.
UnpackLE32(b) == b[1] + b[2] * 256 + b[3] * 65536 + b[4] * 16777216

\* SecretBox(key).decrypt(tag + ciphertext, nonce)
SecretBoxOpen(key, nonce, boxed) ==
    LET tag == Take(boxed, 16)
        ct == Drop(boxed, 16)
    IN  IF Len(boxed) < 16 \/ Poly1305(key, nonce, ct) # tag
        THEN Raise("CryptoError", <<"Decryption failed. Ciphertext failed verification">>)
        ELSE Ok(StreamUnxor(key, nonce, ct))

\* A Substrate-style reader: the salt, the scrypt parameters and the nonce
\* are those stored in the blob.
DecodeSubstrate(keystore, password) ==
    LET blob == Base64Decode(keystore.encoded)
        salt == SubSeq(blob, 1, 32)
        n == UnpackLE32(SubSeq(blob, 33, 36))
        p == UnpackLE32(SubSeq(blob, 37, 40))
        r == UnpackLE32(SubSeq(blob, 41, 44))
        nonce == SubSeq(blob, 45, 68)
        key == Scrypt(Utf8Encode(password), salt, n, r, p, 32)
    IN  SecretBoxOpen(key, nonce, Drop(blob, 68))

\* A Web3 Secret Storage v3 reader.
DecodeWeb3(keystore, password) ==
    LET c == keystore.crypto
        k == c.kdfparams
        derived == Scrypt(Utf8Encode(password), k.salt, k.n, k.r, k.p, k.dklen)
    IN  IF KeccakMac(derived, c.ciphertext) # c.mac
        THEN Raise("ValueError", <<"MAC mismatch">>)
        ELSE Ok(StreamUnxor(Take(derived, 16), c.cipherparams.iv, c.ciphertext))

(***************************************************************************)
(* Claims about the encoders (checked under SpecEncode).                   *)
(***************************************************************************)
BuildCalls == CallsOf("build_keystore")

BuiltOk == {i \in BuildCalls : calls[i].result.ok}

\* The call made last, when it is a call of fn.  Every call of the log was
\* the last one in the state it was made in, so an invariant about the last
\* call is one about every call.
LastCallOf(fn) == {i \in CallsOf(fn) : i = Len(calls)}

LastBuiltOk == {i \in BuiltOk : i = Len(calls)}

\* C3: every build_keystore call draws a 32-byte salt of its own and, once
\* it has a key, a 24-byte nonce of its own; no two calls, failed or not,
\* share a salt or a nonce, and two records never carry the same blob.
C3_SaltAndNonceFreshPerCall ==
    /\ \A i \in BuildCalls :
        /\ Len(calls[i].trace.salt) = 32
        /\ calls[i].trace.kdf # "none" => Len(calls[i].trace.nonce) = 24
    /\ \A i, j \in BuildCalls :
        i # j =>
            /\ calls[i].trace.salt # calls[j].trace.salt
            /\ calls[i].trace.kdf # "none" =>
                 /\ calls[i].trace.nonce # calls[j].trace.nonce
                 /\ calls[i].trace.nonce # Take(calls[j].trace.salt, 24)
    /\ \A i, j \in BuiltOk :
        i # j => calls[i].result.value.encoded # calls[j].result.value.encoded

\* C3 witness: the same key material and password encoded twice, with two
\* records to show for it.
C3_Witness ==
    \E i, j \in BuiltOk :
        /\ i < j
        /\ calls[i].seed_bytes = calls[j].seed_bytes
        /\ calls[i].password = calls[j].password

\* C3 witness of the failed attempt: a call that raised after drawing its
\* salt, followed by another call.
C3_WitnessAfterFailure ==
    \E i, j \in BuildCalls : i < j /\ ~calls[i].result.ok

\* C4: the plaintext is the 16 header bytes, the seed, the 5 divider bytes and
\* the public key, in that order and nothing else: 85 bytes for a 32-byte
\* seed and a 32-byte public key.
C4_PlaintextLayout ==
    \A i \in BuildCalls :
        LET pt == calls[i].trace.plaintext
            seed == calls[i].seed_bytes
            pub == calls[i].keypair.public_key
        IN  /\ Len(pt) = 16 + Len(seed) + 5 + Len(pub)
            /\ SubSeq(pt, 1, 16) =
                 <<48, 83, 2, 1, 1, 48, 5, 6, 3, 43, 101, 112, 4, 34, 4, 32>>
            /\ SubSeq(pt, 17, 16 + Len(seed)) = seed
            /\ SubSeq(pt, 17 + Len(seed), 21 + Len(seed)) = <<161, 35, 3, 33, 0>>
            /\ SubSeq(pt, 22 + Len(seed), Len(pt)) = pub
            /\ (Len(seed) = 32 /\ Len(pub) = 32) => Len(pt) = 85

\* C4 witness: a call with a 32-byte seed and a 32-byte public key.
C4_Witness ==
    \E i \in BuildCalls :
        /\ Len(calls[i].seed_bytes) = 32
        /\ Len(calls[i].keypair.public_key) = 32
        /\ Len(calls[i].trace.plaintext) = 85

\* C5: the 'encoded' field is the base64 of 169 bytes: the salt the key was
\* derived with, N = 32768, p = 1 and r = 8 as 4-byte little-endian integers,
\* the nonce the plaintext was encrypted with, and the 101 bytes of tag and
\* ciphertext; the nonce is there once.
C5_EncodedBlobLayout ==
    \A i \in LastBuiltOk :
        LET t == calls[i].trace
            blob == Base64Decode(calls[i].result.value.encoded)
        IN  /\ Len(blob) = 169
            /\ Base64Encode(blob) = calls[i].result.value.encoded
            /\ SubSeq(blob, 1, 32) = t.salt
            /\ t.key = Scrypt(Utf8Encode(calls[i].password), SubSeq(blob, 1, 32),
                              t.n, t.r, t.p, 32)
            /\ SubSeq(blob, 33, 36) = <<0, 128, 0, 0>>
            /\ SubSeq(blob, 37, 40) = <<1, 0, 0, 0>>
            /\ SubSeq(blob, 41, 44) = <<8, 0, 0, 0>>
            /\ SubSeq(blob, 45, 68) = t.nonce
            /\ SecretBoxOpen(t.key, SubSeq(blob, 45, 68), SubSeq(blob, 69, 169))
                 = Ok(t.plaintext)
            /\ SubSeq(blob, 69, 92) # t.nonce

\* C5 witness: a record was built.
C5_Witness ==
    \E i \in BuiltOk : Len(calls[i].result.value.encoded) = 228

\* C6 (as claimed): on every path that yields a key, the key is scrypt of the
\* password and the salt with N = 32768, r = 8, p = 1.
C6_KeyDerivedWithStoredParams ==
    \A i \in BuildCalls :
        calls[i].trace.kdf # "none" =>
            calls[i].trace.key =
                Scrypt(Utf8Encode(calls[i].password), calls[i].trace.salt,
                       32768, 8, 1, 32)

\* C7 (as claimed): a reader given the record and the same password recovers
\* the 85-byte plaintext with the seed at bytes 16..47 and the public key in
\* the last 32 bytes.
C7_RoundTrip ==
    \A i \in LastBuiltOk :
        LET d == DecodeSubstrate(calls[i].result.value, calls[i].password)
        IN  /\ d.ok
            /\ Len(d.value) = 85
            /\ SubSeq(d.value, 17, 48) = calls[i].seed_bytes
            /\ SubSeq(d.value, 54, 85) = calls[i].keypair.public_key

\* The passwords a reader may try.
TriedPasswords == Passwords \cup {<<>>, <<"c", "b">>, <<"A">>}

\* C8: for a keystore of either format made with password P, reading it with
\* any other password fails with the reader's authentication error and yields
\* no plaintext.
C8_WrongPasswordRejected ==
    /\ \A i \in LastBuiltOk : \A q \in TriedPasswords \ {calls[i].password} :
        LET d == DecodeSubstrate(calls[i].result.value, q)
        IN  ~d.ok /\ d.type = "CryptoError"
    /\ \A i \in LastCallOf("build_web3_keystore") :
        calls[i].result.ok =>
            \A q \in TriedPasswords \ {calls[i].password} :
                LET d == DecodeWeb3(calls[i].result.value, q)
                IN  ~d.ok /\ d.message = <<"MAC mismatch">>

\* C8 witness: a keystore of each format, and the Web3 one opens with its
\* own password.
C8_Witness ==
    /\ BuiltOk # {}
    /\ \E i \in CallsOf("build_web3_keystore") :
        /\ calls[i].result.ok
        /\ DecodeWeb3(calls[i].result.value, calls[i].password)
             = Ok(FromHex(calls[i].private_key_hex))


(***************************************************************************)
(* Claims about a run of the program.                                      *)
(***************************************************************************)

\* C9: neither build_keystore nor build_web3_keystore is invoked with an
\* empty password: the password export_keystore hands to the encoder is the
\* one get_password_confirm returned, which is non-empty and equal to both
\* the first entry and its confirmation.
C9_EncoderPasswordConfirmedNonEmpty ==
    /\ \A i \in DOMAIN enc_calls :
        /\ enc_calls[i].password # <<>>
        /\ enc_calls[i].password = export_password
    /\ pc \in {"choice_prompt", "encode"} \/ enc_calls # <<>>
        => /\ export_password # <<>>
           /\ export_password = pw_entry
           /\ export_password = pw_confirm

\* Both refusals of get_password_confirm have happened, a password was then
\* accepted, and an encoder has been invoked with it.
C9_Witness ==
    /\ enc_calls # <<>>
    /\ \E i \in DOMAIN console : console[i] = <<"  Error: Password cannot be empty.">>
    /\ \E i \in DOMAIN console : console[i] = <<"  Error: Passwords do not match.">>

\* The texts of a file the program has written: its name and its content.
FileTexts(f) ==
    {f.name}
        \cup (IF f.kind = "text"
              THEN {f.content}
              ELSE IF "encoded" \in DOMAIN f.content
              THEN {f.content.encoded, f.content.address}
              ELSE {f.content.address})

\* C10: the mnemonic value appears in no line of console output and in no
\* file the program writes, in any run, including runs where a derivation
\* fails on an invalid mnemonic and its error message is printed.
C10_MnemonicNeverShown ==
    mnemonic # <<>>
        => /\ \A i \in DOMAIN console : ~Contains(console[i], mnemonic)
           /\ \A i \in DOMAIN files :
                \A t \in FileTexts(files[i]) : ~Contains(t, mnemonic)


(***************************************************************************)
(* Claims about errors of the encoder and the derivation.                  *)
(***************************************************************************)

\* C11: whenever the KDF or the AEAD primitive errors inside build_keystore,
\* the call fails with an error of type EncodingError and returns no
\* keystore record; the error is neither replaced by a fallback nor
\* propagated as an exception of another kind.
C11_EncoderFailureIsEncodingError ==
    \A i \in LastCallOf("build_keystore") :
        ~calls[i].result.ok => calls[i].result.type = "EncodingError"


\* C12: a call of derive_enjin_snap_ed25519 either returns a keypair with a
\* seed of exactly 32 bytes, or fails with a typed error and returns neither:
\* DerivationError when a step cannot produce its 32 bytes (InvalidMnemonic
\* is allowed for as well when it is the mnemonic that is refused).
C12_SnapFailureIsDerivationError ==
    \A i \in LastCallOf("derive_enjin_snap_ed25519") :
        IF calls[i].result.ok
        THEN /\ Len(calls[i].result.value.seed_bytes) = 32
             /\ Len(calls[i].result.value.keypair.public_key) = 32
        ELSE /\ calls[i].result.type \in {"DerivationError", "InvalidMnemonic"}
             /\ Bip39Valid(calls[i].mnemonic) => calls[i].result.type = "DerivationError"


(***************************************************************************)
(* Claims about the keystore record.                                       *)
(***************************************************************************)

\* C13: every record build_keystore returns has exactly the top-level fields
\* encoded, encoding, address and meta; encoding.content is
\* <<"pkcs8","ed25519">>, encoding.type <<"scrypt","xsalsa20-poly1305">>,
\* encoding.version the string "3"; address is the SS58 address of the
\* keypair whose public key ends the plaintext; meta.whenCreated is the
\* clock's reading in whole milliseconds; no field of the Web3 format (id,
\* version, crypto) is present.
C13_RecordFields ==
    \A i \in LastBuiltOk :
        LET rec == calls[i].result.value
            pk == Drop(calls[i].trace.plaintext, Len(calls[i].trace.plaintext) - 32)
        IN  /\ DOMAIN rec = {"encoded", "encoding", "address", "meta"}
            /\ DOMAIN rec \cap {"id", "version", "crypto"} = {}
            /\ DOMAIN rec.encoding = {"content", "type", "version"}
            /\ rec.encoding.content = <<"pkcs8", "ed25519">>
            /\ rec.encoding.type = <<"scrypt", "xsalsa20-poly1305">>
            /\ rec.encoding.version = "3"
            /\ pk = calls[i].keypair.public_key
            /\ rec.address = Ss58Encode(pk, SS58_FORMAT)
            /\ DOMAIN rec.meta = {"name", "whenCreated"}
            /\ rec.meta.whenCreated \in Nat
            /\ rec.meta.whenCreated \in Clock

\* build_keystore has returned a record (the PyNaCl path).
C13_Witness ==
    \E i \in BuiltOk :
        /\ calls[i].result.value.encoded # <<>>
        /\ calls[i].result.value.meta.whenCreated = 1500
        /\ calls[i].trace.kdf = "nacl.pwhash.scrypt"


(***************************************************************************)
(* Claims about export_keystore and main (checked under Spec).             *)
(***************************************************************************)
KeystoreFiles == {i \in DOMAIN files : files[i].kind = "json"}

\* C14: one run of export_keystore invokes at most one encoder and writes at
\* most one keystore file; the answer '1' or an empty answer invokes only
\* build_web3_keystore, on "0x" + hex(seed_bytes); the answer '2' invokes
\* only build_keystore, on the Snap keypair and seed; a file written holds
\* the record that call returned.
C14_OneEncoderOfChosenFormat ==
    /\ Len(enc_calls) <= 1
    /\ Cardinality(KeystoreFiles) <= 1
    /\ \A i \in DOMAIN enc_calls :
        /\ Strip(choice.answer) \in {<<"1">>, <<>>}
            => /\ enc_calls[i].encoder = "build_web3_keystore"
               /\ enc_calls[i].private_key_hex = <<"0", "x">> \o ToHex(snap.seed_bytes)
        /\ Strip(choice.answer) = <<"2">>
            => /\ enc_calls[i].encoder = "build_keystore"
               /\ enc_calls[i].keypair = snap.keypair
               /\ enc_calls[i].seed_bytes = snap.seed_bytes
        /\ Strip(choice.answer) \in {<<"1">>, <<>>, <<"2">>}
    /\ \A f \in KeystoreFiles :
        /\ Len(enc_calls) = 1
        /\ enc_calls[1].result.ok
        /\ files[f].content = enc_calls[1].result.value
        /\ "crypto" \in DOMAIN files[f].content
             <=> enc_calls[1].encoder = "build_web3_keystore"

\* The default was taken (an empty answer) and the Web3 record was written.
C14_Witness ==
    /\ pc = "done"
    /\ choice # <<>>
    /\ choice.answer = <<>>
    /\ Cardinality(KeystoreFiles) = 1

\* The answer was '2' and the Substrate-style record was written.
C14_WitnessPolkadot ==
    /\ pc = "done"
    /\ choice # <<>>
    /\ Strip(choice.answer) = <<"2">>
    /\ \E f \in KeystoreFiles : "encoded" \in DOMAIN files[f].content


\* The labels main gives to the errors of its three derivations.
DerivationErrorLabels ==
    {"Error generating Ethereum address: ", "Error generating sr25519 address: ",
     "Error generating Enjin Snap address: "}

\* The encoder calls of this run that failed.
FailedEncodings == {i \in DOMAIN enc_calls : ~enc_calls[i].result.ok}

\* C15: when an encoder fails during export_keystore, or the user declines
\* the export, no keystore file is written and the encoding is not retried;
\* the failure is printed for the operator, as an error of the keystore
\* encoding and not under the label of another kind of error; a file exists
\* only when a complete record was built.
C15_EncoderFailureReportedAsSuch ==
    /\ enc_calls = <<>> => KeystoreFiles = {}
    /\ KeystoreFiles # {} => FailedEncodings = {}
    /\ \A i \in FailedEncodings :
        /\ KeystoreFiles = {}
        /\ Len(enc_calls) = 1
        /\ \E k \in DOMAIN console : Contains(console[k], enc_calls[i].result.message)
        /\ \A k \in DOMAIN console :
            Contains(console[k], enc_calls[i].result.message)
                => console[k][1] \notin DerivationErrorLabels


\* The derivations in main's order, each with the label of its error.
MainOrder ==
    <<[fn |-> "derive_ethereum", label |-> "Error generating Ethereum address: "],
      [fn |-> "derive_matrixchain_sr25519", label |-> "Error generating sr25519 address: "],
      [fn |-> "derive_enjin_snap_ed25519", label |-> "Error generating Enjin Snap address: "]>>

\* The lines with which export_keystore opens.
ExportOpened ==
    {k \in DOMAIN console :
        console[k] = <<"Generate JSON keystore file for Enjin Wallet import?">>}

\* C16: main calls the three derivations in the order Ethereum, Matrixchain
\* sr25519, Enjin Snap ed25519, each on the mnemonic load_mnemonic returned;
\* a derivation that fails is reported and the later ones are still called;
\* export_keystore is entered at most once, only after the Snap derivation
\* has succeeded, and works on the keypair and seed that derivation returned.
C16_DerivationOrderAndExport ==
    /\ Len(calls) <= 3
    /\ \A i \in DOMAIN calls :
        /\ calls[i].fn = MainOrder[i].fn
        /\ calls[i].mnemonic = mnemonic
        /\ ~calls[i].result.ok
            => \E k \in DOMAIN console :
                 console[k] = <<MainOrder[i].label>> \o calls[i].result.message
    /\ pc = "derive_matrixchain" => Len(calls) = 1
    /\ pc = "derive_snap" => Len(calls) = 2
    /\ pc \in {"export_prompt", "pw_prompt", "pw_confirm_prompt", "choice_prompt",
               "encode", "done"} => Len(calls) = 3
    /\ Cardinality(ExportOpened) <= 1
    /\ (ExportOpened # {} \/ enc_calls # <<>>
            \/ pc \in {"export_prompt", "pw_prompt", "pw_confirm_prompt",
                       "choice_prompt", "encode"})
        => /\ Cardinality(ExportOpened) = 1
           /\ Len(calls) = 3
           /\ calls[3].result.ok
           /\ snap = calls[3].result.value
    /\ \A i \in DOMAIN enc_calls :
        IF enc_calls[i].encoder = "build_keystore"
        THEN /\ enc_calls[i].keypair = calls[3].result.value.keypair
             /\ enc_calls[i].seed_bytes = calls[3].result.value.seed_bytes
        ELSE enc_calls[i].private_key_hex
                = <<"0", "x">> \o ToHex(calls[3].result.value.seed_bytes)

\* All three derivations succeeded, export_keystore was entered and an
\* encoder was called on the Snap account.
C16_WitnessExport ==
    /\ Len(calls) = 3
    /\ calls[1].result.ok
    /\ calls[3].result.ok
    /\ ExportOpened # {}
    /\ enc_calls # <<>>

\* The first two derivations failed and were reported, and the third was
\* still called.
C16_Witness ==
    /\ Len(calls) = 3
    /\ ~calls[1].result.ok
    /\ ~calls[2].result.ok
    /\ pc = "done"


(***************************************************************************)
(* Claims about the prompts (checked under Spec).                          *)
(***************************************************************************)
\* Where the program waits inside ask_yes_no, get_password_confirm and
\* ask_choice.
YesNoPrompts == {"recheck_prompt", "export_prompt"}
PasswordPrompts == {"pw_prompt", "pw_confirm_prompt"}
ChoicePrompts == {"choice_prompt"}

\* An answer as a person means it: case and surrounding blanks aside.
Said(ev) == Lower(Strip(ev.text))

\* One step of the program that reads an answer at a prompt of the three
\* functions (the other step possible there is the user's edit of .env).
Reads17 ==
    /\ pc \in YesNoPrompts \cup PasswordPrompts \cup ChoicePrompts
    /\ env_file' = env_file

\* C17, one read: fewer than max_retries attempts were used before it; an
\* interrupt or end of input ends the process at once with status 1; a
\* function goes on prompting only after an invalid answer, which counts as
\* one more attempt, and ends the process with status 1 at the max_retries-th;
\* it returns only on a valid answer: ask_yes_no on yes/no (or the default),
\* ask_choice with a member of its choices, get_password_confirm with a
\* non-empty password equal to both entries.
C17_ReadStep ==
    Reads17 =>
        /\ attempts < max_retries
        /\ attempts' <= max_retries
        /\ answer'.kind # "text" => pc' = "exited"
        /\ pc' = "exited" => exit_status' = 1
        /\ attempts' = max_retries => pc' = "exited"
        /\ pc \in YesNoPrompts =>
            /\ pc' = pc => /\ attempts' = attempts + 1
                           /\ Said(answer') \notin {<<"y">>, <<"y", "e", "s">>, <<"n">>,
                                                    <<"n", "o">>, <<>>}
            /\ pc' \in {"load_loop", "pw_prompt"}
                => Said(answer') \in {<<"y">>, <<"y", "e", "s">>}
            /\ pc' = "done" \/ (pc' = "exited" /\ attempts' = attempts /\ answer'.kind = "text")
                => Said(answer') \in {<<"n">>, <<"n", "o">>, <<>>}
        /\ pc \in ChoicePrompts =>
            /\ pc' = pc => /\ attempts' = attempts + 1
                           /\ Strip(answer'.text) \notin {<<"1">>, <<"2">>, <<>>}
            /\ pc' = "encode"
                => /\ choice'.value \in {<<"1">>, <<"2">>}
                   /\ choice'.value = IF Strip(answer'.text) = <<>>
                                      THEN <<"1">> ELSE Strip(answer'.text)
            /\ pc' \in {pc, "encode", "exited"}
        /\ pc \in PasswordPrompts =>
            /\ pc' = "pw_prompt"
                => /\ attempts' = attempts + 1
                   /\ IF pc = "pw_prompt" THEN answer'.text = <<>>
                                          ELSE answer'.text # pw_entry
            /\ pc' = "pw_confirm_prompt"
                => /\ pc = "pw_prompt"
                   /\ attempts' = attempts
                   /\ pw_entry' = answer'.text
                   /\ pw_entry' # <<>>
            /\ pc' = "choice_prompt"
                => /\ pc = "pw_confirm_prompt"
                   /\ export_password' # <<>>
                   /\ export_password' = pw_entry
                   /\ export_password' = answer'.text
            /\ pc' \in {"pw_prompt", "pw_confirm_prompt", "choice_prompt", "exited"}

\* C17: for every sequence of inputs, ask_yes_no, ask_choice and
\* get_password_confirm end after at most max_retries attempts, with a valid
\* value or with the process terminated with status 1; an interrupt or end
\* of input terminates at once; none of them returns an invalid value.
C17_PromptsBoundedAndValid ==
    /\ [](attempts <= max_retries)
    /\ [](pc = "exited" => exit_status = 1)
    /\ [][C17_ReadStep]_vars

\* A prompt has used up its attempts on invalid answers and the process has
\* ended with status 1.
C17_Witness ==
    /\ pc = "exited"
    /\ exit_status = 1
    /\ attempts = max_retries
    /\ answer.kind = "text"


\* Where main is once load_mnemonic has returned.
AfterLoad ==
    {"derive_ethereum", "derive_matrixchain", "derive_snap", "export_prompt",
     "pw_prompt", "pw_confirm_prompt", "choice_prompt", "encode", "done"}

\* C18, the states: a mnemonic load_mnemonic has returned is the MNEMONIC
\* value of the environment without its surrounding whitespace, and is not
\* empty; main goes on only with a returned mnemonic; the re-check prompt is
\* shown only while MNEMONIC is unset, empty or blank.
C18_Returned ==
    /\ mnemonic # <<>>
        => /\ os_environ.set
           /\ mnemonic = Strip(os_environ.value)
           /\ ~IsSpace(mnemonic[1])
           /\ ~IsSpace(mnemonic[Len(mnemonic)])
    /\ pc \in AfterLoad => mnemonic # <<>>
    /\ pc = "recheck_prompt" => Strip(os_environ.value) = <<>>

\* C18, the steps: load_mnemonic returns only from its confirmation prompt
\* and only on the answer 'y' (as the code reads it: blanks and case
\* aside), given in the iteration that loaded the value; every other answer
\* there, and a no (or the default, no) at the re-check prompt, ends the
\* process with status 1 and no mnemonic returned.
C18_Step ==
    /\ mnemonic' # mnemonic => pc = "confirm_prompt" /\ pc' = "derive_ethereum"
    /\ pc = "confirm_prompt" =>
        /\ Strip(os_environ.value) # <<>>
        /\ IF answer'.kind = "text" /\ Said(answer') = <<"y">>
           THEN /\ pc' = "derive_ethereum"
                /\ mnemonic' = Strip(os_environ.value)
                /\ exit_status' = exit_status
           ELSE /\ pc' = "exited"
                /\ exit_status' = 1
                /\ mnemonic' = <<>>
    /\ (pc = "recheck_prompt" /\ env_file' = env_file /\ answer'.kind = "text"
            /\ Said(answer') \in {<<"n">>, <<"n", "o">>, <<>>})
        => /\ pc' = "exited"
           /\ exit_status' = 1
           /\ mnemonic' = <<>>

\* C18: load_mnemonic returns only a non-empty, whitespace-stripped MNEMONIC
\* value, and only after the answer 'y' to the confirmation prompt of the
\* same iteration; any other answer to that prompt, or a no to the re-check
\* prompt while MNEMONIC is empty, ends the process with exit status 1
\* without a mnemonic returned.
C18_MnemonicOnlyAfterConfirmation ==
    /\ []C18_Returned
    /\ [][C18_Step]_vars

\* load_mnemonic has returned a mnemonic that stood between blanks in the
\* environment, on the answer "Y " to the confirmation prompt, after an
\* earlier pass had found no MNEMONIC.
C18_Witness ==
    /\ pc = "derive_ethereum"
    /\ mnemonic # <<>>
    /\ mnemonic # os_environ.value
    /\ answer = TextEvent(<<"Y", " ">>)
    /\ Rechecks > 0

\* "yes" at the confirmation prompt has ended the process.
C18_WitnessYesRefused ==
    /\ pc = "exited"
    /\ answer = TextEvent(<<" ", "Y", "E", "S">>)
    /\ mnemonic = <<>>
    /\ os_environ.set
    /\ Strip(os_environ.value) # <<>>

=============================================================================
